---- MODULE Spec2Model ----
(***************************************************************************)
(* Model of src/modules/logsearch.py: the three chat-command handlers      *)
(* logsearch, linecount and topusers of class Module.                      *)
(*                                                                         *)
(* Strings are sequences of one-character strings.  A Python int is a      *)
(* record [m, e] standing for m * 10^e (exact, arbitrary precision).       *)
(* A day key "YYYY-MM-DD" is modelled by its day number: the order of the  *)
(* strings (the one list.sort uses) is the order of the numbers.           *)
(* Formatted responses are records holding the values the f-string         *)
(* interpolates, in the order the code emits them.                         *)
(***************************************************************************)
EXTENDS Integers, Sequences, FiniteSets, TLC

(* ---------------------------- bounds ----------------------------------- *)
\* day keys in a result set
MaxDays == 2
\* lines in a result set, over all its days
MaxLines == 3

(* ------------------------ program constants ---------------------------- *)
MAX_BUF_LEN == 102400 - 19 - 12 - 10
TOPUSERS == 50
DefaultDays == 30
SecondsPerDay == 24 * 60 * 60

None == [none |-> TRUE]
Unbound == [unbound |-> TRUE]

(* ---------------------------- strings ---------------------------------- *)
Digits == <<"0", "1", "2", "3", "4", "5", "6", "7", "8", "9">>
DigitSet == {Digits[i] : i \in 1..10}
LowerSet == {"a", "b", "k", "m", "r", "u", "x"}

LowerChar(c) ==
  CASE c = "A" -> "a"
    [] c = "B" -> "b"
    [] c = "K" -> "k"
    [] c = "R" -> "r"
    [] OTHER -> c

\* str.lower()
Lower(s) == [i \in 1..Len(s) |-> LowerChar(s[i])]

\* psclient.toID: lower-case, then drop every character that is not a-z0-9
toID(s) == SelectSeq(Lower(s), LAMBDA c : c \in LowerSet \cup DigitSet)

RECURSIVE JoinComma(_)
\* ','.join(parts)
JoinComma(parts) ==
  IF parts = <<>> THEN <<>>
  ELSE IF Len(parts) = 1 THEN parts[1]
  ELSE parts[1] \o <<",">> \o JoinComma(Tail(parts))

RECURSIVE FirstField(_)
\* line.split('|')[0]: the characters before the first '|' (all, if none)
FirstField(line) ==
  IF line = <<>> THEN <<>>
  ELSE IF Head(line) = "|" THEN <<>>
  ELSE <<Head(line)>> \o FirstField(Tail(line))

(* ------------------------- Python integers ----------------------------- *)
DigitVal(c) == CHOOSE d \in 0..9 : Digits[d + 1] = c

RECURSIVE DigitsValue(_)
DigitsValue(ds) ==
  IF ds = <<>> THEN 0
  ELSE 10 * DigitsValue(SubSeq(ds, 1, Len(ds) - 1)) + DigitVal(ds[Len(ds)])

\* the number of "0" characters the digit string ends with
TrailingZeros(ds) ==
  LET nz == {i \in 1..Len(ds) : ds[i] # "0"}
  IN IF nz = {} THEN Len(ds)
     ELSE Len(ds) - (CHOOSE i \in nz : \A j \in nz : j <= i)

RECURSIVE NormInt(_)
\* the canonical [m, e] of a value: m not divisible by 10, zero is [0, 0]
NormInt(v) ==
  IF v.m = 0 THEN [m |-> 0, e |-> 0]
  ELSE IF v.m % 10 = 0 THEN NormInt([m |-> v.m \div 10, e |-> v.e + 1])
  ELSE v

PyInt(n) == NormInt([m |-> n, e |-> 0])

\* int(s) of a str: optional sign, then one or more digits; anything else
\* raises ValueError
IsIntLiteral(s) ==
  LET body == IF s # <<>> /\ Head(s) \in {"+", "-"} THEN Tail(s) ELSE s
  IN body # <<>> /\ \A i \in 1..Len(body) : body[i] \in DigitSet

IntOf(s) ==
  LET neg == s # <<>> /\ Head(s) = "-"
      body == IF s # <<>> /\ Head(s) \in {"+", "-"} THEN Tail(s) ELSE s
      z == TrailingZeros(body)
      mag == DigitsValue(SubSeq(body, 1, Len(body) - z))
  IN IF mag = 0 THEN [m |-> 0, e |-> 0]
     ELSE [m |-> IF neg THEN 0 - mag ELSE mag, e |-> z]

\* days * 24 * 60 * 60
IntTimes(v, k) == NormInt([m |-> v.m * k, e |-> v.e])

Abs(n) == IF n < 0 THEN 0 - n ELSE n

RECURSIVE NumDigits(_)
NumDigits(n) == IF n < 10 THEN 1 ELSE 1 + NumDigits(n \div 10)

RECURSIVE Pow10(_)
Pow10(k) == IF k = 0 THEN 1 ELSE 10 * Pow10(k - 1)

\* float - int converts the int to a double and raises OverflowError when
\* its magnitude is beyond the largest double, 1.79769313...e308
FloatMaxDigits == 309
FloatMaxLead == 179769313
FloatOverflows(v) ==
  LET a == Abs(v.m)
      d == NumDigits(a) + v.e
  IN /\ a # 0
     /\ \/ d > FloatMaxDigits
        \/ /\ d = FloatMaxDigits
           /\ NumDigits(a) <= 9
           /\ a * Pow10(9 - NumDigits(a)) > FloatMaxLead

(* ------------------------------ sorting -------------------------------- *)
RECURSIVE InsertDesc(_, _)
InsertDesc(x, s) ==
  IF s = <<>> THEN <<x>>
  ELSE IF x > Head(s) THEN <<x>> \o s
  ELSE <<Head(s)>> \o InsertDesc(x, Tail(s))

RECURSIVE SortDesc(_)
\* list.sort(reverse=True) of the (distinct) day keys
SortDesc(s) == IF s = <<>> THEN <<>> ELSE InsertDesc(Head(s), SortDesc(Tail(s)))

\* list(resultsDict.keys()): the keys in the dict's insertion order
Keys(rd) == [i \in 1..Len(rd) |-> rd[i].day]

\* resultsDict[day]
Lookup(rd, day) == (CHOOSE i \in 1..Len(rd) : rd[i].day = day)

LinesOf(rd, day) == rd[Lookup(rd, day)].lines

(* --------------------------- topusers helpers -------------------------- *)
\* users: a dict, kept as the sequence of its [user, n] items in insertion order
HasUser(users, u) == \E i \in 1..Len(users) : users[i].user = u

CountOf(users, u) == users[CHOOSE i \in 1..Len(users) : users[i].user = u].n

\* TallyLine without the test of line 138: empty identifiers are tallied too
TallyLineNoSkip(users, line) ==
  LET userid == FirstField(line)
  IN IF ~HasUser(users, userid)
     THEN Append(users, [user |-> userid, n |-> 1])
     ELSE LET i == CHOOSE j \in 1..Len(users) : users[j].user = userid
          IN SubSeq(users, 1, i - 1)
               \o <<[user |-> userid, n |-> users[i].n + 1]>>
               \o SubSeq(users, i + 1, Len(users))

\* lines 137-142: the body of the inner loop
TallyLine(users, line) ==
  LET userid == FirstField(line)
  IN IF userid = <<>> THEN users
     ELSE IF ~HasUser(users, userid)
          THEN Append(users, [user |-> userid, n |-> 1])
          ELSE LET i == CHOOSE j \in 1..Len(users) : users[j].user = userid
               IN SubSeq(users, 1, i - 1)
                    \o <<[user |-> userid, n |-> users[i].n + 1]>>
                    \o SubSeq(users, i + 1, Len(users))

RECURSIVE TallyLines(_, _, _, _)
\* line 136: for line in resultsDict[result], run over lines[lo..hi] in
\* order: the first half of the range, then the second half from the result
\* (Len(left) is always >= 0: the test makes TLC compute left before it goes on)
TallyLines(users, lines, lo, hi) ==
  IF lo > hi THEN users
  ELSE IF lo = hi THEN TallyLine(users, lines[lo])
  ELSE LET mid == (lo + hi) \div 2
           left == TallyLines(users, lines, lo, mid)
       IN IF Len(left) >= 0 THEN TallyLines(left, lines, mid + 1, hi) ELSE left

RECURSIVE TallyDays(_, _)
\* line 135: for result in resultsDict (the dict's own order, not
\* dayResults); users after the first d days
TallyDays(rd, d) ==
  IF d = 0 THEN <<>>
  ELSE TallyLines(TallyDays(rd, d - 1), rd[d].lines, 1, Len(rd[d].lines))

\* line 144: sorted(users, key=users.__getitem__, reverse=True): the keys by
\* descending count, equal counts in insertion order (the sort is stable).
\* The item at position i of the dict lands after the items with a larger
\* count and after the earlier items with the same count.
SortedPos(users, i) ==
  1 + Cardinality({j \in 1..Len(users) :
                     \/ users[j].n > users[i].n
                     \/ users[j].n = users[i].n /\ j < i})

\* SortedUsers without reverse=True: ascending counts
SortedUsersAscending(users) ==
  [k \in 1..Len(users) |->
     users[CHOOSE i \in 1..Len(users) :
             k = 1 + Cardinality({j \in 1..Len(users) :
                                    \/ users[j].n < users[i].n
                                    \/ users[j].n = users[i].n /\ j < i})].user]

SortedUsers(users) ==
  [k \in 1..Len(users) |->
     users[CHOOSE i \in 1..Len(users) : SortedPos(users, i) = k].user]

\* lines 147-151: i is incremented before the test, so at the user in
\* position p of sortedUsers i = p; the loop breaks at the first p with
\* i > TOPUSERS and an item is appended at every position before it
RankLoop(sorted, users) ==
  LET kept == {p \in 1..Len(sorted) : ~(p > TOPUSERS)}
  IN [p \in 1..Cardinality(kept) |->
        [user |-> sorted[p], n |-> CountOf(users, sorted[p])]]

\* lines 99-102: one <li> per day of dayResults
DayDetails(dayResults, rd) ==
  [i \in 1..Len(dayResults) |->
     [day |-> dayResults[i], dayCount |-> Len(LinesOf(rd, dayResults[i]))]]

(* ------------------------------ inputs --------------------------------- *)
\* the dispatch table of Module.__init__
commands ==
  [logsearch |-> "logsearch", searchlogs |-> "logsearch", sl |-> "logsearch",
   linecount |-> "linecount", topusers |-> "topusers"]

RoomArgs == {<<"R", "!">>}
UserArgs == {<<"A", "b">>}
KeywordArgs == {<<"K">>}
\* "1" followed by 309 zeros
HugeArg == [i \in 1..310 |-> IF i = 1 THEN "1" ELSE "0"]
DaysArgs == {<<"7">>, <<"x">>, HugeArg}
Counts == {0, 3}

Prefixes(s) == {SubSeq(s, 1, n) : n \in 0..Len(s)}

\* message.arguments: the command name, then the comma-separated arguments
ArgLists(name) ==
  LET h == commands[name]
      full == IF h = "logsearch"
              THEN {<<r, u, k>> : r \in RoomArgs, u \in UserArgs, k \in KeywordArgs}
              ELSE IF h = "linecount"
              THEN {<<u, r, d>> : u \in UserArgs, r \in RoomArgs, d \in DaysArgs}
              ELSE {<<r, d>> : r \in RoomArgs, d \in DaysArgs}
  IN {<<name>> \o p : p \in UNION {Prefixes(f) : f \in full}}

\* the log lines the chatlogger may return
LineSet == {<<>>, <<"a", "|", "x">>, <<"b">>, <<"|", "a">>}
\* the orders in which the dict may hold up to MaxDays distinct day keys
DaySeqs ==
  {ds \in UNION {[1..k -> 1..MaxDays] : k \in 0..MaxDays} :
     \A i, j \in 1..Len(ds) : i # j => ds[i] # ds[j]}
\* up to MaxLines lines in all
LineSeqs == UNION {[1..t -> LineSet] : t \in 0..MaxLines}
\* the ways to cut t lines into k consecutive (possibly empty) lists
Cuts(k, t) ==
  {c \in [1..(k - 1) -> 0..t] : \A i \in 1..(k - 2) : c[i] <= c[i + 1]}
\* the dict with the keys ds, day ds[i] holding the i-th piece of lines
DictOf(ds, lines, c) ==
  [i \in 1..Len(ds) |->
     [day |-> ds[i],
      lines |-> SubSeq(lines, (IF i = 1 THEN 0 ELSE c[i - 1]) + 1,
                       IF i = Len(ds) THEN Len(lines) ELSE c[i])]]
\* user number i as an identifier, and a line written by that user
UserName(i) == <<"u", Digits[(i \div 10) + 1], Digits[(i % 10) + 1]>>
UserLine(i) == UserName(i) \o <<"|", "m">>
\* one day on which users 1..n write one line each and user n then one more
CrowdedDay(n) ==
  <<[day |-> 1, lines |-> [i \in 1..(n + 1) |-> UserLine(IF i > n THEN n ELSE i)]]>>
BigResultSets == {CrowdedDay(n) : n \in {TOPUSERS, TOPUSERS + 1}}

(* ------------------------------ state ---------------------------------- *)
VARIABLES
  pc,          \* position in the running handler
  handler,     \* the handler the dispatcher called
  arguments,   \* message.arguments
  chatlogger,  \* message.connection.chatlogger is set
  roomID, userID, keyword, days, room, count,   \* locals
  resultsDict, dayResults, users, sortedUsers,  \* locals
  trace,       \* the collaborator calls made so far, in order
  exc          \* the exception that left the handler, if any

args == <<handler, arguments, chatlogger>>
parsed == <<roomID, userID, keyword, days>>
results == <<resultsDict, dayResults, users, sortedUsers>>
vars == <<pc, handler, arguments, chatlogger, roomID, userID, keyword, days,
          room, count, resultsDict, dayResults, users, sortedUsers, trace, exc>>

\* Python indexes message.arguments from 0
Arg(k) == arguments[k + 1]

Call(op, arg) == [op |-> op, arg |-> arg]
Respond(text) == Call("respond", text)
RespondHTML(content) == Call("respondHTML", content)

Idle ==
  /\ pc = "idle"
  /\ handler = "none"
  /\ arguments = <<>>
  /\ chatlogger = FALSE
  /\ roomID = Unbound /\ userID = Unbound /\ keyword = Unbound /\ days = Unbound
  /\ room = Unbound /\ count = Unbound
  /\ resultsDict = Unbound /\ dayResults = Unbound
  /\ users = Unbound /\ sortedUsers = Unbound
  /\ trace = <<>>
  /\ exc = "none"

Init == Idle

\* the dispatcher calls self.commands[name](message)
Dispatch ==
  /\ pc = "idle"
  /\ \E name \in DOMAIN commands, cl \in BOOLEAN :
       \E a \in ArgLists(name) :
         /\ handler' = commands[name]
         /\ arguments' = a
         /\ chatlogger' = cl
         /\ pc' = CASE commands[name] = "logsearch" -> "L33"
                    [] commands[name] = "linecount" -> "L72"
                    [] commands[name] = "topusers" -> "L112"
  /\ UNCHANGED <<parsed, room, count, results, trace, exc>>

\* return <call>: the handler ends with one more collaborator call
ReturnWith(call) ==
  /\ trace' = Append(trace, call)
  /\ pc' = "done"

\* an exception leaves the handler
Raise(e) ==
  /\ exc' = e
  /\ pc' = "raised"

\* chatlogger.search returns a dict from day key to list of lines: any small
\* one, or one of the crowded ones
SearchReturns ==
  \/ \E ds \in DaySeqs, lines \in LineSeqs :
        /\ ds = <<>> => lines = <<>>
        /\ \E c \in Cuts(Len(ds), Len(lines)) : resultsDict' = DictOf(ds, lines, c)
  \/ \E rd \in BigResultSets : resultsDict' = rd

(* ----------------------------- logsearch ------------------------------ *)
\* lines 33-34
LS_Args ==
  /\ pc = "L33"
  /\ IF Len(arguments) < 2
     THEN ReturnWith(Respond([msg |-> "usage", of |-> "logsearch"]))
     ELSE pc' = "L35" /\ UNCHANGED trace
  /\ UNCHANGED <<args, parsed, room, count, results, exc>>

\* line 35
LS_Logger ==
  /\ pc = "L35"
  /\ IF ~chatlogger
     THEN ReturnWith(Respond([msg |-> "nologger"]))
     ELSE pc' = "L36" /\ UNCHANGED trace
  /\ UNCHANGED <<args, parsed, room, count, results, exc>>

\* lines 36-40: the three arguments, then connection.getRoom(roomID)
LS_GetRoom ==
  /\ pc = "L36"
  /\ roomID' = Lower(toID(Arg(1)))
  /\ userID' = IF Len(arguments) > 2 THEN Lower(toID(Arg(2))) ELSE <<>>
  /\ keyword' = IF Len(arguments) > 3
                THEN Lower(JoinComma(SubSeq(arguments, 4, Len(arguments))))
                ELSE <<>>
  /\ \E found \in BOOLEAN : room' = IF found THEN [id |-> roomID'] ELSE None
  /\ trace' = Append(trace, Call("getRoom", roomID'))
  /\ pc' = "L41"
  /\ UNCHANGED <<args, days, count, results, exc>>

\* line 41
LS_Room ==
  /\ pc = "L41"
  /\ IF room = None
     THEN ReturnWith(Respond([msg |-> "invalidroom", roomID |-> roomID]))
     ELSE pc' = "L42" /\ UNCHANGED trace
  /\ UNCHANGED <<args, parsed, room, count, results, exc>>

\* line 42: sender.can("searchlog", room)
LS_Perm ==
  /\ pc = "L42"
  /\ \E allowed \in BOOLEAN :
       LET asked == Append(trace, Call("can", [perm |-> "searchlog", allowed |-> allowed]))
       IN IF ~allowed
          THEN trace' = Append(asked, Respond([msg |-> "denied"])) /\ pc' = "done"
          ELSE trace' = asked /\ pc' = "L44"
  /\ UNCHANGED <<args, parsed, room, count, results, exc>>

\* lines 44-47: the query and the sort, then line 47 reads html.escape while
\* html is a local of the function (assigned at line 50) that has no value
\* yet, and the read raises UnboundLocalError.  Lines 48-64 never run.
LS_Search ==
  /\ pc = "L44"
  /\ SearchReturns
  /\ dayResults' = SortDesc(Keys(resultsDict'))
  /\ trace' = Append(trace, Call("search",
                [roomID |-> roomID, userID |-> userID, keywords |-> <<keyword>>]))
  /\ Raise("UnboundLocalError")
  /\ UNCHANGED <<args, parsed, room, count, users, sortedUsers>>

(* ----------------------------- linecount ------------------------------ *)
\* lines 72-73
LC_Args ==
  /\ pc = "L72"
  /\ IF Len(arguments) < 3
     THEN ReturnWith(Respond([msg |-> "usage", of |-> "linecount"]))
     ELSE pc' = "L75" /\ UNCHANGED trace
  /\ UNCHANGED <<args, parsed, room, count, results, exc>>

\* ParseDays with the default taken only when the argument is missing: a
\* value that is not an integer literal counts as 0
ParseDaysNoDefault(k) ==
  IF Len(arguments) > k
  THEN (IF IsIntLiteral(Arg(k)) THEN IntOf(Arg(k)) ELSE PyInt(0))
  ELSE PyInt(DefaultDays)

\* lines 77-80 and 116-119: int(message.arguments[k]), 30 on IndexError
\* (no such argument) or ValueError (not an integer literal)
ParseDays(k) ==
  IF Len(arguments) > k /\ IsIntLiteral(Arg(k)) THEN IntOf(Arg(k)) ELSE PyInt(DefaultDays)

\* lines 75-82
LC_GetRoom ==
  /\ pc = "L75"
  /\ userID' = toID(Arg(1))
  /\ roomID' = toID(Arg(2))
  /\ days' = ParseDays(3)
  /\ \E found \in BOOLEAN : room' = IF found THEN [id |-> roomID'] ELSE None
  /\ trace' = Append(trace, Call("getRoom", roomID'))
  /\ pc' = "L83"
  /\ UNCHANGED <<args, keyword, count, results, exc>>

\* line 83
LC_Logger ==
  /\ pc = "L83"
  /\ IF ~chatlogger
     THEN ReturnWith(Respond([msg |-> "nologger"]))
     ELSE pc' = "L84" /\ UNCHANGED trace
  /\ UNCHANGED <<args, parsed, room, count, results, exc>>

\* line 84
LC_Room ==
  /\ pc = "L84"
  /\ IF room = None
     THEN ReturnWith(Respond([msg |-> "invalidroom", roomID |-> roomID]))
     ELSE pc' = "L85" /\ UNCHANGED trace
  /\ UNCHANGED <<args, parsed, room, count, results, exc>>

\* LC_Perm with the result of the permission test ignored
LC_PermIgnored ==
  /\ pc = "L85"
  /\ \E allowed \in BOOLEAN :
       trace' = Append(trace, Call("can", [perm |-> "searchlog", allowed |-> allowed]))
  /\ pc' = "L87"
  /\ UNCHANGED <<args, parsed, room, count, results, exc>>

\* line 85
LC_Perm ==
  /\ pc = "L85"
  /\ \E allowed \in BOOLEAN :
       LET asked == Append(trace, Call("can", [perm |-> "searchlog", allowed |-> allowed]))
       IN IF ~allowed
          THEN trace' = Append(asked, Respond([msg |-> "denied"])) /\ pc' = "done"
          ELSE trace' = asked /\ pc' = "L87"
  /\ UNCHANGED <<args, parsed, room, count, results, exc>>

\* lines 87-88: the total, and the plain-text summary
LC_Count ==
  /\ pc = "L87"
  /\ \E c \in Counts : count' = c
  /\ trace' = trace \o
       << Call("getLinecount", [userID |-> userID, roomID |-> roomID, days |-> days]),
          Respond([msg |-> "linecount", userID |-> userID, count |-> count',
                   roomID |-> roomID, days |-> days]) >>
  /\ pc' = "L90"
  /\ UNCHANGED <<args, parsed, room, results, exc>>

\* lines 90-104: oldest = now - days * 24 * 60 * 60 is a float minus an int;
\* then the query, the sort and the per-day list
LC_Search ==
  /\ pc = "L90"
  /\ IF FloatOverflows(IntTimes(days, SecondsPerDay))
     THEN /\ Raise("OverflowError")
          /\ UNCHANGED <<results, trace>>
     ELSE /\ SearchReturns
          /\ dayResults' = SortDesc(Keys(resultsDict'))
          /\ trace' = trace \o
               << Call("search", [roomID |-> roomID, userID |-> userID, window |-> days]),
                  RespondHTML([html |-> "linecounts",
                               details |-> DayDetails(dayResults', resultsDict')]) >>
          /\ pc' = "done"
          /\ UNCHANGED <<users, sortedUsers, exc>>
  /\ UNCHANGED <<args, parsed, room, count>>

(* ------------------------------ topusers ------------------------------ *)
\* lines 112-113
TU_Args ==
  /\ pc = "L112"
  /\ IF Len(arguments) < 2
     THEN ReturnWith(Respond([msg |-> "usage", of |-> "topusers"]))
     ELSE pc' = "L115" /\ UNCHANGED trace
  /\ UNCHANGED <<args, parsed, room, count, results, exc>>

\* lines 115-121
TU_GetRoom ==
  /\ pc = "L115"
  /\ roomID' = toID(Arg(1))
  /\ days' = ParseDays(2)
  /\ \E found \in BOOLEAN : room' = IF found THEN [id |-> roomID'] ELSE None
  /\ trace' = Append(trace, Call("getRoom", roomID'))
  /\ pc' = "L122"
  /\ UNCHANGED <<args, userID, keyword, count, results, exc>>

\* line 122
TU_Logger ==
  /\ pc = "L122"
  /\ IF ~chatlogger
     THEN ReturnWith(Respond([msg |-> "nologger"]))
     ELSE pc' = "L123" /\ UNCHANGED trace
  /\ UNCHANGED <<args, parsed, room, count, results, exc>>

\* TU_Room without the return: the message is sent and the handler goes on
TU_RoomFallsThrough ==
  /\ pc = "L123"
  /\ trace' = IF room = None
               THEN Append(trace, Respond([msg |-> "invalidroom", roomID |-> roomID]))
               ELSE trace
  /\ pc' = "L124"
  /\ UNCHANGED <<args, parsed, room, count, results, exc>>

\* line 123
TU_Room ==
  /\ pc = "L123"
  /\ IF room = None
     THEN ReturnWith(Respond([msg |-> "invalidroom", roomID |-> roomID]))
     ELSE pc' = "L124" /\ UNCHANGED trace
  /\ UNCHANGED <<args, parsed, room, count, results, exc>>

\* line 124
TU_Perm ==
  /\ pc = "L124"
  /\ \E allowed \in BOOLEAN :
       LET asked == Append(trace, Call("can", [perm |-> "searchlog", allowed |-> allowed]))
       IN IF ~allowed
          THEN trace' = Append(asked, Respond([msg |-> "denied"])) /\ pc' = "done"
          ELSE trace' = asked /\ pc' = "L125"
  /\ UNCHANGED <<args, parsed, room, count, results, exc>>

\* TU_Wait without the acknowledgment
TU_WaitSkipped ==
  /\ pc = "L125"
  /\ pc' = "L127"
  /\ UNCHANGED <<args, parsed, room, count, results, trace, exc>>

\* line 125
TU_Wait ==
  /\ pc = "L125"
  /\ trace' = Append(trace, Respond([msg |-> "wait"]))
  /\ pc' = "L127"
  /\ UNCHANGED <<args, parsed, room, count, results, exc>>

\* lines 127-153: the query (after the same float minus int), the tally, the
\* ranking and the HTML list
TU_Search ==
  /\ pc = "L127"
  /\ IF FloatOverflows(IntTimes(days, SecondsPerDay))
     THEN /\ Raise("OverflowError")
          /\ UNCHANGED <<results, trace>>
     ELSE /\ SearchReturns
          /\ dayResults' = SortDesc(Keys(resultsDict'))
          /\ users' = TallyDays(resultsDict', Len(resultsDict'))
          /\ sortedUsers' = SortedUsers(users')
          /\ trace' = trace \o
               << Call("search", [roomID |-> roomID, window |-> days]),
                  RespondHTML([html |-> "topusers", top |-> TOPUSERS,
                               roomID |-> roomID, days |-> days,
                               items |-> RankLoop(sortedUsers', users')]) >>
          /\ pc' = "done"
          /\ UNCHANGED exc
  /\ UNCHANGED <<args, parsed, room, count>>

(* ------------------------------------------------------------------------ *)
\* the handler has returned or raised; nothing of the call outlives it
Finish ==
  /\ pc \in {"done", "raised"}
  /\ pc' = "idle"
  /\ handler' = "none"
  /\ arguments' = <<>>
  /\ chatlogger' = FALSE
  /\ roomID' = Unbound /\ userID' = Unbound /\ keyword' = Unbound /\ days' = Unbound
  /\ room' = Unbound /\ count' = Unbound
  /\ resultsDict' = Unbound /\ dayResults' = Unbound
  /\ users' = Unbound /\ sortedUsers' = Unbound
  /\ trace' = <<>>
  /\ exc' = "none"

Next ==
  \/ Dispatch
  \/ LS_Args \/ LS_Logger \/ LS_GetRoom \/ LS_Room \/ LS_Perm \/ LS_Search
  \/ LC_Args \/ LC_GetRoom \/ LC_Logger \/ LC_Room \/ LC_Perm \/ LC_Count \/ LC_Search
  \/ TU_Args \/ TU_GetRoom \/ TU_Logger \/ TU_Room \/ TU_Perm \/ TU_Wait \/ TU_Search
  \/ Finish

Spec == Init /\ [][Next]_vars

(* ------------------------- reading the trace ---------------------------- *)
IsEmission(c) == c.op \in {"respond", "respondHTML"}
IsQuery(c) == c.op \in {"search", "getLinecount"}

\* the response emissions of the invocation, in order
Emissions == SelectSeq(trace, IsEmission)
\* the chatlogger queries of the invocation, in order
Queries == SelectSeq(trace, IsQuery)
\* emissions and queries together, in order
Events == SelectSeq(trace, LAMBDA c : IsEmission(c) \/ IsQuery(c))

Ended == pc \in {"done", "raised"}

MinArgs == [logsearch |-> 2, linecount |-> 3, topusers |-> 2]
TooFewArgs == Len(arguments) < MinArgs[handler]
RoomAsked == \E i \in 1..Len(trace) : trace[i].op = "getRoom"
CanAsked(i) == trace[i].op = "can"
Denied == \E i \in 1..Len(trace) : CanAsked(i) /\ ~trace[i].arg.allowed
Allowed == \E i \in 1..Len(trace) : CanAsked(i) /\ trace[i].arg.allowed
\* every check of the handler has passed
ChecksPassed == ~TooFewArgs /\ chatlogger /\ RoomAsked /\ room # None /\ Allowed

(* ------------------------------- C3 ------------------------------------- *)
\* C3: every invocation of logsearch ends without an uncaught exception and
\* with exactly one response emission (respond or respondHTML).
C3_OneResponseNoException ==
  (handler = "logsearch" /\ Ended) => (exc = "none" /\ Len(Emissions) = 1)

(* ------------------------------- C1 ------------------------------------- *)
Searched == \E i \in 1..Len(trace) : trace[i].op = "search"
HtmlCalls == {i \in 1..Len(trace) : trace[i].op = "respondHTML"}

\* (the buffer logsearch would emit is read as a record: text, its characters,
\* and days, the day keys whose blocks it holds)
\* C1: for every result set the chatlogger returns to logsearch, the HTML
\* string logsearch passes to respondHTML has at most MAX_BUF_LEN characters.
C1_OutputWithinBudget ==
  (handler = "logsearch" /\ Ended /\ Searched) =>
     /\ HtmlCalls # {}
     /\ \A i \in HtmlCalls : Len(trace[i].arg.text) <= MAX_BUF_LEN

(* ------------------------------- C2 ------------------------------------- *)
IsPrefix(s, t) == Len(s) <= Len(t) /\ \A i \in 1..Len(s) : s[i] = t[i]

\* C2: the days whose blocks are in the output logsearch emits are a prefix
\* of the day keys sorted in descending order (the oldest days are dropped).
C2_EmittedDaysArePrefix ==
  (handler = "logsearch" /\ Ended /\ Searched) =>
     \E i \in HtmlCalls : IsPrefix(trace[i].arg.days, dayResults)

(* ------------------------------- C4 ------------------------------------- *)
\* C4: in the three handlers, once sender.can("searchlog", room) has returned
\* false the handler has returned with "Permission denied." as its only
\* emission, and the invocation contains no chatlogger query at all.
C4_DeniedShortCircuits ==
  Denied =>
     /\ pc = "done" /\ exc = "none"
     /\ Emissions = <<Respond([msg |-> "denied"])>>
     /\ Queries = <<>>

C4_Witness ==
  /\ handler = "linecount" /\ pc = "done" /\ Denied
  /\ trace[Len(trace)] = Respond([msg |-> "denied"])

(* ------------------------------- C5 ------------------------------------- *)
\* the message of the first check, in the order of the code, that fails
FailureMessage ==
  IF TooFewArgs THEN [msg |-> "usage", of |-> handler]
  ELSE IF ~chatlogger THEN [msg |-> "nologger"]
  ELSE IF room = None THEN [msg |-> "invalidroom", roomID |-> roomID]
  ELSE [msg |-> "denied"]

AnyFailure == TooFewArgs \/ ~chatlogger \/ (RoomAsked /\ room = None) \/ Denied

\* C5: in each handler, an invocation in which a failure condition holds (too
\* few arguments, no chatlogger, room not resolved, permission denied) ends
\* with exactly one emission, a plain-text respond carrying the message of
\* that condition (of the first one the code tests, when several hold), and
\* raises nothing.
C5_FailureGivesOneRespond ==
  (handler # "none" /\ Ended /\ AnyFailure) =>
     /\ exc = "none" /\ pc = "done"
     /\ Emissions = <<Respond(FailureMessage)>>

C5_Witness ==
  /\ handler = "topusers" /\ pc = "done" /\ chatlogger /\ room = None
  /\ Emissions = <<Respond([msg |-> "invalidroom", roomID |-> <<"r">>])>>

(* ------------------------------- C6 ------------------------------------- *)
\* the index, in message.arguments, of the days argument
DaysIndex == IF handler = "linecount" THEN 3 ELSE 2
DaysAbsent == Len(arguments) <= DaysIndex
DaysUnparsable == ~DaysAbsent /\ ~IsIntLiteral(Arg(DaysIndex))
ExpectedWindow ==
  IF DaysAbsent \/ DaysUnparsable THEN [m |-> 3, e |-> 1] ELSE IntOf(Arg(DaysIndex))

\* the window a call was made with, or None if the call carries none
WindowOf(c) ==
  IF c.op = "getLinecount" THEN c.arg.days
  ELSE IF c.op = "search" THEN c.arg.window
  ELSE IF c.op = "respond" /\ c.arg.msg = "linecount" THEN c.arg.days
  ELSE IF c.op = "respondHTML" /\ c.arg.html = "topusers" THEN c.arg.days
  ELSE None

\* C6: in linecount and topusers the window passed to the chatlogger and
\* reported in the responses is 30 when the days argument is absent or is not
\* an integer literal, and the integer it denotes otherwise; an unparsable
\* value never makes the invocation fail.
C6_WindowDefaultsTo30 ==
  handler \in {"linecount", "topusers"} =>
     /\ \A i \in 1..Len(trace) :
          WindowOf(trace[i]) # None => WindowOf(trace[i]) = ExpectedWindow
     /\ (Ended /\ ChecksPassed /\ (DaysAbsent \/ DaysUnparsable)) =>
          /\ exc = "none"
          /\ trace[Len(trace)].op = "respondHTML"

C6_Witness ==
  /\ handler = "linecount" /\ pc = "done" /\ DaysUnparsable
  /\ \E i \in 1..Len(trace) :
       trace[i].op = "getLinecount" /\ trace[i].arg.days = [m |-> 3, e |-> 1]
  /\ trace[Len(trace)].op = "respondHTML"

(* ------------------------------- C7 ------------------------------------- *)
\* the ranked list topusers emitted
Ranking == trace[Len(trace)].arg.items
RankingEmitted ==
  /\ handler = "topusers" /\ pc = "done" /\ trace # <<>>
  /\ trace[Len(trace)].op = "respondHTML"
Listed(u) == \E k \in 1..Len(Ranking) : Ranking[k].user = u

\* C7: the ranked list of topusers has at most TOPUSERS entries, the counts of
\* consecutive entries never increase, and no user left out has a larger count
\* than a listed one.
C7_RankingTopSorted ==
  RankingEmitted =>
     /\ Len(Ranking) <= TOPUSERS
     /\ \A k \in 1..(Len(Ranking) - 1) : Ranking[k].n >= Ranking[k + 1].n
     /\ \A i \in 1..Len(users) :
          ~Listed(users[i].user) =>
             \A k \in 1..Len(Ranking) : users[i].n <= Ranking[k].n

C7_Witness ==
  /\ RankingEmitted
  /\ Len(users) > TOPUSERS
  /\ Len(Ranking) = TOPUSERS
  /\ Ranking[1].n > Ranking[TOPUSERS].n

(* ------------------------------- C8 ------------------------------------- *)
IsDescending(s) == \A i \in 1..(Len(s) - 1) : s[i] > s[i + 1]

\* C8: when all preconditions of linecount hold, the invocation makes exactly
\* two emissions: the plain-text summary (after getLinecount, before the
\* search), then one respondHTML listing the days in descending order, each
\* with the number of lines returned for it.
C8_SummaryThenPerDayList ==
  (handler = "linecount" /\ Ended /\ ChecksPassed) =>
     /\ Len(Events) = 4
     /\ Events[1].op = "getLinecount"
     /\ Events[2] = Respond([msg |-> "linecount", userID |-> userID, count |-> count,
                             roomID |-> roomID, days |-> days])
     /\ Events[3].op = "search"
     /\ Events[4].op = "respondHTML"
     /\ LET details == Events[4].arg.details
        IN /\ Len(details) = Len(resultsDict)
           /\ IsDescending([i \in 1..Len(details) |-> details[i].day])
           /\ \A i \in 1..Len(details) :
                \E j \in 1..Len(resultsDict) :
                   /\ resultsDict[j].day = details[i].day
                   /\ Len(resultsDict[j].lines) = details[i].dayCount

(* ------------------------------- C9 ------------------------------------- *)
IsWait(c) == c = Respond([msg |-> "wait"])

\* C9: in topusers "Please wait" is emitted only after the argument,
\* chatlogger, room and permission checks have passed and before the search
\* is issued; an invocation that passes the checks and returns has made the
\* calls respond(please wait), search, respondHTML(ranking) and no other
\* emission or query.
C9_WaitBeforeSearch ==
  handler = "topusers" =>
     /\ \A i \in 1..Len(trace) :
          IsWait(trace[i]) =>
             /\ ChecksPassed
             /\ \A j \in 1..i : trace[j].op # "search"
     /\ \A j \in 1..Len(trace) :
          trace[j].op = "search" => \E i \in 1..(j - 1) : IsWait(trace[i])
     /\ (pc = "done" /\ ChecksPassed) =>
          /\ Len(Events) = 3
          /\ IsWait(Events[1])
          /\ Events[2].op = "search"
          /\ Events[3].op = "respondHTML" /\ Events[3].arg.html = "topusers"

C9_Witness ==
  /\ handler = "topusers" /\ pc = "done" /\ ChecksPassed
  /\ Len(Events) = 3 /\ IsWait(Events[1]) /\ Events[2].op = "search"
  /\ Events[3].op = "respondHTML"

(* ------------------------------- C10 ------------------------------------ *)
\* the places (day, line) of the lines of the result set
Places ==
  UNION {{<<d, l>> : l \in 1..Len(resultsDict[d].lines)} : d \in 1..Len(resultsDict)}
LineAt(p) == resultsDict[p[1]].lines[p[2]]

\* the places of the lines whose first field is u
LinesBy(u) == {p \in Places : FirstField(LineAt(p)) = u}

\* the first fields that occur in the result set
FirstFields == {FirstField(LineAt(p)) : p \in Places}

\* C10: the tally of topusers gives every identifier the number of lines, over
\* all returned days, whose first pipe-delimited field is that identifier;
\* lines with an empty first field count for nobody and the empty identifier
\* is not in the ranking.
C10_TallyCountsFirstFields ==
  RankingEmitted =>
     /\ \A i \in 1..Len(users) :
          /\ users[i].user # <<>>
          /\ users[i].n = Cardinality(LinesBy(users[i].user))
          /\ \A j \in 1..Len(users) : users[j].user = users[i].user => j = i
     /\ \A u \in FirstFields : u # <<>> => HasUser(users, u)
     /\ \A k \in 1..Len(Ranking) :
          /\ Ranking[k].user # <<>>
          /\ Ranking[k].n = Cardinality(LinesBy(Ranking[k].user))

C10_Witness ==
  /\ RankingEmitted
  /\ LinesBy(<<>>) # {}
  /\ \E k \in 1..Len(Ranking) : Ranking[k].n >= 2

====
